---- MODULE Spec2Model ----
(***************************************************************************)
(* The provenance ledger of src/blockchain.py (Block, Blockchain) and the  *)
(* registration / verification workflow that main.py drives through the    *)
(* verification engine, with the two signal aggregators of                 *)
(* src/detection_engine.py (AIGenerationDetector) and                      *)
(* src/tamper_detector.py (TamperDetector).                                *)
(*                                                                         *)
(* Opaque strings (content hashes, public keys, signatures) are small      *)
(* naturals.  SHA-256 is modelled as a collision-free digest: a hash value *)
(* is its leading hex digits, which vary with every hashed field, together *)
(* with the text that was hashed (standing for the remaining digits, which *)
(* identify the preimage).                                                 *)
(***************************************************************************)
EXTENDS Integers, Sequences, FiniteSets, TLC

VARIABLES chain, file, now, ret, tampered, threads, setting,
          peer, image, temp, analysis

\* chain: self.chain; file: the document at self.blockchain_file; now: the
\* last clock reading; ret: what the last completed call returned or printed;
\* tampered: whether a block was edited behind the ledger's back; threads:
\* where each thread stands inside a call, with its local variables;
\* setting: self.difficulty; peer: the chain of a second Blockchain object
\* opened on the same ledger file (empty until it is constructed); image: the
\* content handed to the detectors; temp: the file <image_path>_temp.jpg;
\* analysis: where each caller of error_level_analysis stands
vars == <<chain, file, now, ret, tampered, threads, setting,
          peer, image, temp, analysis>>

(***************************** bounds **************************************)

\* longest chain the model builds (genesis included)
MaxChain == 3
\* content items 1..MaxContent
MaxContent == 2
\* creator identities 1..MaxKeys
MaxKeys == 1
\* the leading digits of a model digest take this many values, so that a
\* proof-of-work search ends within as many nonces
DigestSpread == 4

(************************ program constants ********************************)

\* self.difficulty = 2
difficulty == 2
\* hexdigest() digits are base 16
HexBase == 16
\* content_hash of the genesis block: sixty-four '0' characters
GENESIS_CONTENT_HASH == 0
\* creator_public_key = signature = "GENESIS"
GENESIS == 0

Contents == 1..MaxContent
Keys == 1..MaxKeys

(****************************** hashing ************************************)

\* previous_hash = "0" of the genesis block: a one-character string, no digest
GENESIS_PREVIOUS_HASH == [hex |-> <<0>>, rest |-> <<>>]

\* hashlib.sha256(content).hexdigest() of a content item: injective, and never
\* the all-zero digest
ContentDigest(c) == MaxContent + 1 - c

ContentHashes == {ContentDigest(c) : c \in Contents}

\* a number that varies with every field that went into hash value h
HashCode(h) ==
    IF h.rest = <<>> THEN h.hex[1]
    ELSE LET s == h.rest[1]
         IN  1 + h.hex[1] + s[1] + s[2] + s[3] + s[4] + s[6] + s[7]

\* Block.to_dict
to_dict(b) ==
    [index |-> b.index, timestamp |-> b.timestamp, content_hash |-> b.content_hash,
     creator_public_key |-> b.creator_public_key, signature |-> b.signature,
     previous_hash |-> b.previous_hash, nonce |-> b.nonce]

\* json.dumps(d, sort_keys=True, default=str): the values in key order
json_dumps(d) ==
    <<d.content_hash, d.creator_public_key, d.index, d.nonce,
      d.previous_hash, d.signature, d.timestamp>>

\* the class of the digest of text s that decides its leading digits: every
\* field of the text moves it, and consecutive nonces run through all classes
Lead(s) ==
    (7 * s[1] + 9 * s[2] + 11 * s[3] + 3 * s[4] + 13 * HashCode(s[5])
       + 17 * s[6] + 19 * s[7] + 1) % DigestSpread

\* hashlib.sha256(s.encode()).hexdigest(): the leading hex digits, and the
\* hashed text standing for the digits that follow
sha256(s) ==
    [hex |-> <<(Lead(s) \div 2) % HexBase, Lead(s) % 2>>, rest |-> <<s>>]

\* Block.calculate_hash
calculate_hash(b) == sha256(json_dumps(to_dict(b)))

\* mutant of MeetsDifficulty: the prefix compared is one '0' short
MeetsDifficultyShort(h) ==
    /\ difficulty - 1 <= Len(h.hex)
    /\ \A i \in 1..(difficulty - 1) : h.hex[i] = 0

\* computed_hash.startswith('0' * self.difficulty)
MeetsDifficulty(h) ==
    /\ difficulty <= Len(h.hex)
    /\ \A i \in 1..difficulty : h.hex[i] = 0

(******************************* blocks ************************************)

\* Block.__init__ (the hash attribute is set by whoever creates the block)
Block(index, timestamp, content_hash, creator_public_key, signature, previous_hash, nonce) ==
    [index |-> index, timestamp |-> timestamp, content_hash |-> content_hash,
     creator_public_key |-> creator_public_key, signature |-> signature,
     previous_hash |-> previous_hash, nonce |-> nonce]

\* block.hash = h
SetHash(b, h) ==
    [index |-> b.index, timestamp |-> b.timestamp, content_hash |-> b.content_hash,
     creator_public_key |-> b.creator_public_key, signature |-> b.signature,
     previous_hash |-> b.previous_hash, nonce |-> b.nonce, hash |-> h]

\* the while loop of proof_of_work, entered with block.nonce = n
RECURSIVE Mine(_, _)
Mine(b, n) ==
    IF MeetsDifficulty(calculate_hash([b EXCEPT !.nonce = n])) THEN n
    ELSE Mine(b, n + 1)

\* mutant of proof_of_work: block.hash is taken before the nonce search
proof_of_work_early_hash(b) ==
    LET mined == [b EXCEPT !.nonce = Mine(b, 0)]
    IN  SetHash(mined, calculate_hash([b EXCEPT !.nonce = 0]))

\* Blockchain.proof_of_work
proof_of_work(b) ==
    LET mined == [b EXCEPT !.nonce = Mine(b, 0)]
    IN  SetHash(mined, calculate_hash(mined))

\* Blockchain.validate_block
validate_block(new_block, previous_block) ==
    IF previous_block.index + 1 # new_block.index THEN FALSE
    ELSE IF calculate_hash(previous_block) # new_block.previous_hash THEN FALSE
    ELSE IF ~MeetsDifficulty(calculate_hash(new_block)) THEN FALSE
    ELSE TRUE

\* Blockchain.is_valid_chain
is_valid_chain(c) ==
    IF Len(c) = 0 THEN TRUE
    ELSE \A i \in 2..Len(c) :
            /\ validate_block(c[i], c[i - 1])
            /\ calculate_hash(c[i]) = c[i].hash

(***************************** persistence *********************************)

\* the ledger file does not exist
NoFile == [kind |-> "absent"]

\* mutant of Document: the length field is that of the chain before the
\* latest block
Document_stale_length(c) ==
    [kind |-> "doc", chain |-> [i \in 1..Len(c) |-> to_dict(c[i])],
     length |-> Len(c) - 1, valid |-> is_valid_chain(c)]

\* the document save_blockchain writes
Document(c) ==
    [kind |-> "doc", chain |-> [i \in 1..Len(c) |-> to_dict(c[i])],
     length |-> Len(c), valid |-> is_valid_chain(c)]

\* Blockchain.save_blockchain
save_blockchain(c) == Document(c)

\* mutant of load_blockchain: the last entry of the block array is not read
load_blockchain_dropping_last(f) ==
    IF f.kind = "absent" THEN <<>>
    ELSE IF f.kind # "doc" THEN <<>>
    ELSE [i \in 1..(Len(f.chain) - 1) |->
            LET d == f.chain[i]
                b == Block(d.index, d.timestamp, d.content_hash, d.creator_public_key,
                           d.signature, d.previous_hash, d.nonce)
            IN  SetHash(b, calculate_hash(b))]

\* load_blockchain that passes no nonce to Block, which then takes its
\* default
load_blockchain_default_nonce(f) ==
    IF f.kind # "doc" THEN <<>>
    ELSE [i \in 1..Len(f.chain) |->
            LET d == f.chain[i]
                b == Block(d.index, d.timestamp, d.content_hash, d.creator_public_key,
                           d.signature, d.previous_hash, 0)
            IN  SetHash(b, calculate_hash(b))]

\* Blockchain.load_blockchain: the chain it leaves in self.chain
load_blockchain(f) ==
    IF f.kind = "absent" THEN <<>>
    ELSE IF f.kind # "doc" THEN <<>>
    ELSE [i \in 1..Len(f.chain) |->
            LET d == f.chain[i]
                b == Block(d.index, d.timestamp, d.content_hash, d.creator_public_key,
                           d.signature, d.previous_hash, d.nonce)
            IN  SetHash(b, calculate_hash(b))]

\* a ledger file json.load raises on: empty, as open(..., 'w') leaves it
\* until json.dump has written the document through, cut short, or garbled
Unparsable == [kind |-> "unparsable"]

\* what load_blockchain prints: the message of its except branch, when
\* reading the document raised
load_blockchain_printed(f) ==
    IF f.kind = "absent" THEN <<>>
    ELSE IF f.kind # "doc" THEN <<"Error loading blockchain">>
    ELSE <<>>

\* Blockchain.create_genesis_block at clock reading t
create_genesis_block(t) ==
    LET g == Block(0, t, GENESIS_CONTENT_HASH, GENESIS, GENESIS, GENESIS_PREVIOUS_HASH, 0)
    IN  SetHash(g, calculate_hash(g))

\* Blockchain.__init__ whose genesis block is not saved
BlockchainInit_no_rewrite(f, t) ==
    LET loaded == load_blockchain(f)
    IN  IF Len(loaded) = 0
        THEN [chain |-> <<create_genesis_block(t)>>, file |-> f]
        ELSE [chain |-> loaded, file |-> f]

\* Blockchain.__init__ on ledger file f at clock reading t: the chain and the
\* file it leaves
BlockchainInit(f, t) ==
    LET loaded == load_blockchain(f)
    IN  IF Len(loaded) = 0
        THEN LET c == <<create_genesis_block(t)>>
             IN  [chain |-> c, file |-> save_blockchain(c)]
        ELSE [chain |-> loaded, file |-> f]

(****************************** signatures *********************************)

\* sign_content: the PKCS#1 v1.5 signature of content_hash under the private
\* key of identity k (deterministic; never the string "GENESIS")
sign_content(content_hash, k) == 1 + content_hash * (MaxKeys + 2) + k

\* verify_signature against the public key of identity k
verify_signature(content_hash, signature, k) == signature = sign_content(content_hash, k)

(******************************* ledger ************************************)

\* every content hash a caller may pass: digests of content, and the all-zero
\* string the genesis block carries
AllHashes == ContentHashes \cup {GENESIS_CONTENT_HASH}

\* time.time(): every reading is later than the one before
ClockReadings == {now + 1}

\* mutant of get_content_registration: the scan stops before the last block
get_content_registration_short_scan(c, content_hash) ==
    LET hits == {i \in 1..(Len(c) - 1) : c[i].content_hash = content_hash}
    IN  IF hits = {} THEN <<>>
        ELSE LET i == CHOOSE j \in hits : \A k \in hits : j <= k
                 block == c[i]
             IN  <<[index |-> block.index, timestamp |-> block.timestamp,
                    content_hash |-> block.content_hash,
                    creator_public_key |-> block.creator_public_key,
                    signature |-> block.signature,
                    block_hash |-> calculate_hash(block)]>>

\* Blockchain.get_content_registration: <<>> is None, <<r>> the record
get_content_registration(c, content_hash) ==
    LET hits == {i \in 1..Len(c) : c[i].content_hash = content_hash}
    IN  IF hits = {} THEN <<>>
        ELSE LET i == CHOOSE j \in hits : \A k \in hits : j <= k
                 block == c[i]
             IN  <<[index |-> block.index, timestamp |-> block.timestamp,
                    content_hash |-> block.content_hash,
                    creator_public_key |-> block.creator_public_key,
                    signature |-> block.signature,
                    block_hash |-> calculate_hash(block)]>>

\* mutant of get_verification_report: the two branches are swapped
get_verification_report_swapped(c, content_hash) ==
    LET registration == get_content_registration(c, content_hash)
    IN  IF registration = <<>>
        THEN [status |-> "VERIFIED", confidence |-> 95,
              registration_info |-> registration, is_original |-> TRUE,
              first_seen |-> <<>>]
        ELSE [status |-> "NOT_FOUND", confidence |-> 10,
              registration_info |-> <<>>, is_original |-> FALSE,
              first_seen |-> <<>>]

\* Blockchain.get_verification_report (confidence in hundredths)
get_verification_report(c, content_hash) ==
    LET registration == get_content_registration(c, content_hash)
    IN  IF registration # <<>>
        THEN [status |-> "VERIFIED", confidence |-> 95,
              registration_info |-> registration, is_original |-> TRUE,
              first_seen |-> <<registration[1].timestamp>>]
        ELSE [status |-> "NOT_FOUND", confidence |-> 10,
              registration_info |-> <<>>, is_original |-> FALSE,
              first_seen |-> <<>>]

\* mutant of add_block_result: the candidate takes the index of the last block
add_block_result_same_index(c, content_hash, creator_public_key, signature, t) ==
    IF Len(c) = 0 THEN [ok |-> FALSE, chain |-> c]
    ELSE LET previous_block == c[Len(c)]
             new_block == proof_of_work(
                 Block(previous_block.index, t, content_hash, creator_public_key,
                       signature, calculate_hash(previous_block), 0))
         IN  IF validate_block(new_block, previous_block)
             THEN [ok |-> TRUE, chain |-> Append(c, new_block)]
             ELSE [ok |-> FALSE, chain |-> c]

\* the body of Blockchain.add_block at clock reading t: its return value and
\* the chain it leaves
add_block_result(c, content_hash, creator_public_key, signature, t) ==
    IF Len(c) = 0 THEN [ok |-> FALSE, chain |-> c]
    ELSE LET previous_block == c[Len(c)]
             new_block == proof_of_work(
                 Block(previous_block.index + 1, t, content_hash, creator_public_key,
                       signature, calculate_hash(previous_block), 0))
         IN  IF validate_block(new_block, previous_block)
             THEN [ok |-> TRUE, chain |-> Append(c, new_block)]
             ELSE [ok |-> FALSE, chain |-> c]

\* who may have made the signature passed with public key k: its owner, or
\* another identity
Signers(k) == {k, (k % (MaxKeys + 1)) + 1}

(****************************** detectors **********************************)

\* Confidences and the measurements they are computed from are in
\* hundredths (0.5 is 50); a weighted confidence, the product of a weight in
\* hundredths and a confidence in hundredths, is in ten-thousandths.  What a
\* detector measures on the pixels (a histogram's spread, a correlation, an
\* entropy) is a field of the content record; what the detector does with
\* its measurement is translated from the code.

\* Python's min and max of two numbers
min(a, b) == IF b < a THEN b ELSE a
max(a, b) == IF b > a THEN b ELSE a

\* what a detector hands back: its confidence, the "error" entry of its
\* details if it has one, and the exception it let escape if it did
Signal(c) == [confidence |-> c, error |-> <<>>, raised |-> <<>>]
Failed(msg) == [confidence |-> 0, error |-> <<msg>>, raised |-> <<>>]
Raised(exc) == [confidence |-> 0, error |-> <<>>, raised |-> <<exc>>]

\* content no detector was given: an unsupported content type
NoImage ==
    [content_type |-> "unknown", loads |-> FALSE, small |-> FALSE,
     uniformity_score |-> 0, jpeg_encodable |-> TRUE, correlation_score |-> 0,
     average_entropy |-> 800, coefficient_of_variation |-> 100,
     pil_opens |-> FALSE, same_shape |-> TRUE, std_error |-> 0,
     similar_ratio |-> 0,
     faces |-> <<>>, noise_inconsistency |-> 0, normalized_entropy |-> 50,
     kurtosis_deviation |-> 0, metadata |-> "match"]

\* an ordinary photograph: every library reads it and every detector
\* measures a low score
Photo ==
    [NoImage EXCEPT !.content_type = "image", !.loads = TRUE, !.pil_opens = TRUE,
                    !.std_error = 10]

\* AIGenerationDetector.detect_frequency_artifacts: uniformity_score is
\* 1 - std(hist) / mean(hist) over a 50-bin histogram, which is negative
\* whenever the counts spread by more than their mean
detect_frequency_artifacts(img) ==
    IF ~img.loads THEN Failed("Could not load image")
    ELSE Signal(min(100, (img.uniformity_score * 3) \div 2))

\* AIGenerationDetector.detect_noise_residual_patterns: the image is
\* re-encoded as JPEG and decoded again; nothing catches a failure of that
detect_noise_residual_patterns(img) ==
    IF ~img.loads THEN Failed("Could not load image")
    ELSE IF ~img.jpeg_encodable THEN Raised("cv2.error")
    ELSE Signal(min(100, (img.correlation_score * 6) \div 5))

\* AIGenerationDetector.detect_gan_fingerprints: average_entropy is in
\* hundredths of a bit
detect_gan_fingerprints(img) ==
    IF ~img.loads THEN Failed("Could not load image")
    ELSE LET entropy_score == max(0, 100 - img.average_entropy \div 8)
         IN  Signal(min(100, (entropy_score * 3) \div 2))

\* AIGenerationDetector.detect_diffusion_artifacts: an image with no whole
\* 8x8 patch has no variances, the coefficient of variation is not a number
\* and max(0, nan) is 0
detect_diffusion_artifacts(img) ==
    IF ~img.loads THEN Failed("Could not load image")
    ELSE LET uniformity_score ==
                 IF img.small THEN 0 ELSE max(0, 100 - img.coefficient_of_variation)
         IN  Signal(min(100, (uniformity_score * 3) \div 2))

\* the four AI detectors in the order detect_ai_generated calls them, their
\* keys in detection_signals, their weights and their evidence strings
AIDetectors == <<"frequency_analysis", "noise_analysis", "gan_fingerprint",
                 "diffusion_artifact">>
AIWeights == [frequency_analysis |-> 25, noise_analysis |-> 25,
              gan_fingerprint |-> 25, diffusion_artifact |-> 25]
AIEvidence == [frequency_analysis |-> "Unnatural frequency domain patterns detected",
               noise_analysis |-> "Suspicious noise residual patterns detected",
               gan_fingerprint |-> "GAN fingerprint patterns detected",
               diffusion_artifact |-> "Diffusion model artifacts detected"]

\* 0.5, as a confidence and as a weighted confidence
EMISSION == 50
DECISION == 5000

\* the calls made before (and including) the first that raises, or all of
\* them
RECURSIVE Invoked(_, _, _)
Invoked(order, run, i) ==
    IF i > Len(order) THEN <<>>
    ELSE IF run[order[i]].raised # <<>> THEN <<order[i]>>
    ELSE <<order[i]>> \o Invoked(order, run, i + 1)

\* sum of weight * confidence over the detectors
RECURSIVE WeightedSum(_, _, _, _)
WeightedSum(order, weights, run, i) ==
    IF i > Len(order) THEN 0
    ELSE run[order[i]].confidence * weights[order[i]]
         + WeightedSum(order, weights, run, i + 1)

\* the evidence strings of the detectors whose confidence is above 0.5, in
\* the order of the "if" statements
RECURSIVE Compile(_, _, _, _)
Compile(order, strings, run, i) ==
    IF i > Len(order) THEN <<>>
    ELSE (IF run[order[i]].confidence > EMISSION THEN <<strings[order[i]]>> ELSE <<>>)
         \o Compile(order, strings, run, i + 1)

\* AIGenerationDetector.detect_ai_generated without its last detector once
\* the first three already decide the verdict
RunAI_short_circuit(img) ==
    LET run == [frequency_analysis |-> detect_frequency_artifacts(img),
                noise_analysis |-> detect_noise_residual_patterns(img),
                gan_fingerprint |-> detect_gan_fingerprints(img)]
        so_far == run.frequency_analysis.confidence * 25
                  + run.noise_analysis.confidence * 25
                  + run.gan_fingerprint.confidence * 25
    IN  [frequency_analysis |-> run.frequency_analysis,
         noise_analysis |-> run.noise_analysis,
         gan_fingerprint |-> run.gan_fingerprint,
         diffusion_artifact |-> IF so_far > DECISION THEN Signal(0)
                                ELSE detect_diffusion_artifacts(img)]

\* the four calls and the dictionary of their results
RunAI(img) ==
    [frequency_analysis |-> detect_frequency_artifacts(img),
     noise_analysis |-> detect_noise_residual_patterns(img),
     gan_fingerprint |-> detect_gan_fingerprints(img),
     diffusion_artifact |-> detect_diffusion_artifacts(img)]

\* AIGenerationDetector.detect_ai_generated(content_data): the dictionary
\* it returns, or the exception that leaves it
detect_ai_generated(content) ==
    LET results == [is_ai_generated |-> FALSE, overall_confidence |-> 0,
                    detection_signals |-> <<>>, evidence |-> <<>>,
                    error |-> <<>>, raised |-> <<>>, invoked |-> <<>>]
    IN  IF content.content_type = "image"
        THEN LET run == RunAI(content)
                 invoked == Invoked(AIDetectors, run, 1)
                 last == run[invoked[Len(invoked)]]
                 weighted_confidence == WeightedSum(AIDetectors, AIWeights, run, 1)
             IN  IF last.raised # <<>>
                 THEN [raised |-> last.raised, invoked |-> invoked]
                 ELSE [results EXCEPT
                          !.detection_signals = run,
                          !.overall_confidence = weighted_confidence,
                          !.is_ai_generated = weighted_confidence > DECISION,
                          !.evidence = Compile(AIDetectors, AIEvidence, run, 1),
                          !.invoked = invoked]
        ELSE IF content.content_type = "video"
        THEN [results EXCEPT
                 !.overall_confidence = 3000,
                 !.detection_signals =
                     [note |-> "Video analysis requires actual frame data extraction for full analysis"]]
        ELSE [results EXCEPT
                 !.error = <<"Unsupported content type">>]

\* the file <image_path>_temp.jpg: absent, or the recompressed copy that
\* caller `by` saved
NoTemp == <<>>
TempBy(by) == <<[by |-> by]>>

\* the callers of error_level_analysis on the same image
Analysts == {"ela1", "ela2"}

\* TamperDetector.error_level_analysis(image_path) run by `by` with nobody
\* else at work: its signal and the temporary file it leaves.  Every
\* exception is caught and reported as 0.0; the one raised after the copy
\* was saved skips the clean-up: an original of four channels and its JPEG
\* copy of three give arrays of different shapes (same_shape is FALSE), and
\* their subtraction at line 46 raises.
error_level_analysis(img, by) ==
    IF ~img.pil_opens
    THEN [signal |-> Failed("Error in ELA"), temp |-> NoTemp]
    ELSE IF ~img.same_shape
    THEN [signal |-> Failed("Error in ELA"), temp |-> TempBy(by)]
    ELSE [signal |-> IF img.std_error > 20
                     THEN Signal(min(100, img.std_error * 2))
                     ELSE Signal(10),
          temp |-> NoTemp]

\* TamperDetector.detect_cloning_tampering: similar_ratio is
\* similar_pairs / total_comparisons
detect_cloning_tampering(img) ==
    IF ~img.loads THEN Failed("Could not load image")
    ELSE IF img.small THEN Failed("Image too small for cloning detection")
    ELSE Signal(min(100, img.similar_ratio * 3))

\* sum of the per-face confidences: 0.7 where the edge densities of a face
\* and of its boundary differ, 0.1 where they agree
RECURSIVE total_confidence(_)
total_confidence(faces) ==
    IF faces = <<>> THEN 0
    ELSE (IF Head(faces) THEN 70 ELSE 10) + total_confidence(Tail(faces))

\* TamperDetector.detect_face_swaps
detect_face_swaps(img) ==
    IF ~img.loads THEN Failed("Could not load image")
    ELSE IF Len(img.faces) > 0
    THEN Signal(total_confidence(img.faces) \div Len(img.faces))
    ELSE Signal(0)

\* TamperDetector.detect_splicing_tampering: an image with no whole 32x32
\* patch has no noise scores
detect_splicing_tampering(img) ==
    IF ~img.loads THEN Failed("Could not load image")
    ELSE IF img.small THEN Signal(0)
    ELSE Signal(min(100, img.noise_inconsistency \div 2))

\* TamperDetector.detect_re_encoding_inconsistencies
detect_re_encoding_inconsistencies(img) ==
    IF ~img.loads THEN Failed("Could not load image")
    ELSE IF img.small THEN Failed("Image too small for DCT analysis")
    ELSE IF img.normalized_entropy < 30 \/ img.kurtosis_deviation > 200
    THEN Signal(min(100, 300 - img.normalized_entropy * 10
                              + img.kurtosis_deviation \div 5))
    ELSE Signal(10)

\* TamperDetector.detect_metadata_visual_mismatch: the metadata is
\* extracted first, inside the try
detect_metadata_visual_mismatch(img) ==
    IF img.metadata = "unreadable" THEN Failed("Error in metadata analysis")
    ELSE IF ~img.loads THEN Failed("Could not load image")
    ELSE IF img.metadata = "mismatch" THEN Signal(80)
    ELSE Signal(10)

\* the six tampering detectors in the order detect_manipulation calls them,
\* their keys in manipulation_signals, their weights and evidence strings
TamperDetectors == <<"error_level_analysis", "cloning_detection",
                     "face_swap_detection", "splicing_detection",
                     "re_encoding_analysis", "metadata_visual_match">>
TamperWeights == [error_level_analysis |-> 20, cloning_detection |-> 15,
                  face_swap_detection |-> 15, splicing_detection |-> 20,
                  re_encoding_analysis |-> 15, metadata_visual_match |-> 15]
TamperEvidence ==
    [error_level_analysis |-> "Error Level Analysis indicates possible re-compression",
     cloning_detection |-> "Cloning/forgery patterns detected",
     face_swap_detection |-> "Suspicious facial features detected",
     splicing_detection |-> "Possible image splicing detected",
     re_encoding_analysis |-> "Re-encoding inconsistencies detected",
     metadata_visual_match |-> "Metadata does not match visual content"]

\* the six calls and the dictionary of their results
RunTamper(img, by) ==
    [error_level_analysis |-> error_level_analysis(img, by).signal,
     cloning_detection |-> detect_cloning_tampering(img),
     face_swap_detection |-> detect_face_swaps(img),
     splicing_detection |-> detect_splicing_tampering(img),
     re_encoding_analysis |-> detect_re_encoding_inconsistencies(img),
     metadata_visual_match |-> detect_metadata_visual_mismatch(img)]

\* TamperDetector.detect_manipulation(content_data), called by `by`: the
\* dictionary it returns and the temporary file it leaves
detect_manipulation(content, by) ==
    LET results == [is_manipulated |-> FALSE, overall_confidence |-> 0,
                    manipulation_signals |-> <<>>, evidence |-> <<>>,
                    error |-> <<>>, raised |-> <<>>, invoked |-> <<>>,
                    temp |-> NoTemp]
    IN  IF content.content_type = "image"
        THEN LET run == RunTamper(content, by)
                 weighted_confidence ==
                     WeightedSum(TamperDetectors, TamperWeights, run, 1)
             IN  [results EXCEPT
                     !.manipulation_signals = run,
                     !.overall_confidence = weighted_confidence,
                     !.is_manipulated = weighted_confidence > DECISION,
                     !.evidence = Compile(TamperDetectors, TamperEvidence, run, 1),
                     !.invoked = Invoked(TamperDetectors, run, 1),
                     !.temp = error_level_analysis(content, by).temp]
        ELSE IF content.content_type = "video"
        THEN [results EXCEPT
                 !.overall_confidence = 2000,
                 !.manipulation_signals =
                     [note |-> "Video manipulation detection requires specialized frame-by-frame analysis"],
                 !.evidence = <<"Video analysis requires additional frame-level processing">>]
        ELSE [results EXCEPT
                 !.error = <<"Unsupported content type">>]

(*************************** the ledger's calls ****************************)

\* the threads that may be inside a call on the one ledger instance: two
\* callers of add_block and one of get_content_registration
Appenders == {"append1", "append2"}
Readers == {"lookup"}
Threads == Appenders \cup Readers

\* a thread that is in no call
Idle == [pc |-> "idle"]

\* a ledger constructed where no ledger file exists; the clock starts there
Init ==
    LET made == BlockchainInit(NoFile, 0)
    IN  /\ chain = made.chain
        /\ file = made.file
        /\ now = 0
        /\ ret = [op |-> "init", found |-> NoFile,
                  printed |-> load_blockchain_printed(NoFile)]
        /\ tampered = "none"
        /\ threads = [w \in Threads |-> Idle]
        /\ setting = difficulty
        /\ peer = <<>>
        /\ image = NoImage
        /\ temp = NoTemp
        /\ analysis = [a \in Analysts |-> Idle]

\* Blockchain.add_block(content_hash, creator_public_key, signature); the
\* signature is the one identity `signer` makes over the content hash
AddBlock ==
    /\ Len(chain) < MaxChain
    /\ \E h \in AllHashes, k \in Keys, t \in ClockReadings : \E signer \in Signers(k) :
        LET sig == sign_content(h, signer)
            r == add_block_result(chain, h, k, sig, t)
        IN  /\ chain' = r.chain
            /\ file' = IF r.ok THEN save_blockchain(r.chain) ELSE file
            /\ now' = t
            /\ ret' = [op |-> "add_block", content_hash |-> h, creator_public_key |-> k,
                       signature |-> sig, result |-> r.ok]
            /\ UNCHANGED <<tampered, threads, setting, peer, image, temp, analysis>>

\* a call of Blockchain.get_content_registration
Lookup ==
    \E h \in AllHashes :
        /\ ret' = [op |-> "get_content_registration", content_hash |-> h,
                   result |-> get_content_registration(chain, h)]
        /\ UNCHANGED <<chain, file, now, tampered, threads, setting, peer, image, temp, analysis>>

\* a call of Blockchain.get_verification_report
Report ==
    \E h \in AllHashes :
        /\ ret' = [op |-> "get_verification_report", content_hash |-> h,
                   result |-> get_verification_report(chain, h)]
        /\ UNCHANGED <<chain, file, now, tampered, threads, setting, peer, image, temp, analysis>>

\* Blockchain() constructed again on the ledger file (each run of main.py
\* opens the ledger anew)
Reopen ==
    \E t \in ClockReadings :
        LET made == BlockchainInit(file, t)
        IN  /\ chain' = made.chain
            /\ file' = made.file
            /\ now' = IF Len(load_blockchain(file)) = 0 THEN t ELSE now
            /\ ret' = [op |-> "init", found |-> file,
                       printed |-> load_blockchain_printed(file)]
            /\ UNCHANGED <<tampered, threads, setting, peer, image, temp, analysis>>

(***************************** orchestrator ********************************)

\* thresholds in hundredths: config.py's, and the default of 0.5
AI_DETECTION_THRESHOLD == 70
MANIPULATION_THRESHOLD == 60
DEFAULT_THRESHOLD == 50

\* the threshold configurations a verification may run under
Thresholds ==
    {[ai |-> DEFAULT_THRESHOLD, tamper |-> DEFAULT_THRESHOLD],
     [ai |-> AI_DETECTION_THRESHOLD, tamper |-> MANIPULATION_THRESHOLD]}

\* aggregated confidences in hundredths: below, at and above the thresholds
Confidences == {0, 50, 60, 70}

\* the classification table of verify, first match wins
Classify(ledger_status, ai, tamper, th) ==
    IF ledger_status = "VERIFIED" /\ ai < th.ai /\ tamper < th.tamper
    THEN "AUTHENTIC_REGISTERED"
    ELSE IF ai >= th.ai THEN "LIKELY_AI_GENERATED"
    ELSE IF tamper >= th.tamper THEN "LIKELY_MANIPULATED"
    ELSE IF ledger_status = "NOT_FOUND" THEN "UNVERIFIED_ORIGIN"
    ELSE "INDETERMINATE"

\* verify(content): the report for content item c whose aggregated signals
\* are ai and tamper
verify_content(c, content, ai, tamper, th) ==
    LET hash == ContentDigest(content)
        ledger == get_verification_report(c, hash)
    IN  [content_hash |-> hash, ledger_status |-> ledger.status,
         record |-> ledger.registration_info,
         ai_confidence |-> ai, tamper_confidence |-> tamper,
         classification |-> Classify(ledger.status, ai, tamper, th)]

\* register(content, identity) at clock reading t: the outcome and the chain
register_original_content(c, content, identity, t) ==
    LET hash == ContentDigest(content)
        existing == get_content_registration(c, hash)
    IN  IF existing # <<>>
        THEN [outcome |-> "AlreadyRegistered", content_hash |-> hash,
              index |-> existing[1].index, chain |-> c]
        ELSE LET r == add_block_result(c, hash, identity, sign_content(hash, identity), t)
             IN  IF r.ok
                 THEN [outcome |-> "Registered", content_hash |-> hash,
                       index |-> r.chain[Len(r.chain)].index, chain |-> r.chain]
                 ELSE [outcome |-> "ValidationError", content_hash |-> hash,
                       index |-> -1, chain |-> c]

\* main.py register_content: a registration of content item `content` by
\* identity k
Register ==
    \E content \in Contents, k \in Keys, t \in ClockReadings :
        LET r == register_original_content(chain, content, k, t)
        IN  /\ r.outcome = "AlreadyRegistered" \/ Len(chain) < MaxChain
            /\ chain' = r.chain
            /\ file' = IF r.outcome = "Registered" THEN save_blockchain(r.chain) ELSE file
            /\ now' = IF r.outcome = "AlreadyRegistered" THEN now ELSE t
            /\ ret' = [op |-> "register", content |-> content, identity |-> k,
                       content_hash |-> r.content_hash, outcome |-> r.outcome,
                       index |-> r.index, length_before |-> Len(chain)]
            /\ UNCHANGED <<tampered, threads, setting, peer, image, temp, analysis>>

\* main.py verify_single_file: a verification of content item `content`
Verify ==
    \E content \in Contents, ai \in Confidences, tamper \in Confidences, th \in Thresholds :
        /\ ret' = [op |-> "verify", thresholds |-> th,
                   report |-> verify_content(chain, content, ai, tamper, th)]
        /\ UNCHANGED <<chain, file, now, tampered, threads, setting, peer, image, temp, analysis>>

(************************* add_block, step by step *************************)

\* a hexdigest has sixty-four characters
HexDigits == 64

\* the values self.difficulty is given: the one of __init__, and one more
\* than a digest has characters
Settings == {difficulty, HexDigits + 1}

\* the model follows the nonces of one search up to here; a search that can
\* end has ended by then, and for one that cannot the nonces beyond are
\* folded back onto 0..MaxNonce
MaxNonce == 2 * DigestSpread

\* h.startswith('0' * d)
startswith_zeros(h, d) ==
    IF d > HexDigits THEN FALSE
    ELSE /\ d <= Len(h.hex)
         /\ \A i \in 1..d : h.hex[i] = 0

\* the clock readings the model follows: a call that would take the clock
\* further is left out
MaxClock == MaxChain + 2

\* the add_block calls that are under way
InProgress == {w \in Appenders : threads[w] # Idle}

AllIdle == \A w \in Threads : threads[w] = Idle

\* ledger.difficulty = d, between calls
Configure ==
    /\ AllIdle
    /\ \E d \in Settings \ {setting} : setting' = d
    /\ ret' = [op |-> "configure"]
    /\ UNCHANGED <<chain, file, now, tampered, threads, peer, image, temp, analysis>>

\* add_block up to the head of the while loop of proof_of_work: the last
\* block is read, the candidate built, its nonce set to 0 and hashed
AddBlockBegin(w) ==
    /\ threads[w] = Idle
    /\ Len(chain) > 0
    /\ Len(chain) + Cardinality(InProgress) < MaxChain
    /\ now < MaxClock
    /\ \E h \in ContentHashes, k \in Keys, t \in ClockReadings :
        LET previous_block == chain[Len(chain)]
            new_block == Block(previous_block.index + 1, t, h, k, sign_content(h, k),
                               calculate_hash(previous_block), 0)
        IN  /\ threads' = [threads EXCEPT ![w] =
                    [pc |-> "mining", previous_block |-> previous_block,
                     block |-> new_block, computed_hash |-> calculate_hash(new_block)]]
            /\ now' = t
            /\ UNCHANGED <<chain, file, ret, tampered, setting, peer, image, temp, analysis>>

\* one pass of the while loop: the hash does not start with the zeros, the
\* nonce goes up by one and the block is hashed again
MineStep(w) ==
    /\ threads[w].pc = "mining"
    /\ ~startswith_zeros(threads[w].computed_hash, setting)
    /\ LET b == threads[w].block
           next == [b EXCEPT !.nonce = IF @ < MaxNonce THEN @ + 1 ELSE 0]
       IN  threads' = [threads EXCEPT ![w] =
                [@ EXCEPT !.block = next, !.computed_hash = calculate_hash(next)]]
    /\ UNCHANGED <<chain, file, now, ret, tampered, setting, peer, image, temp, analysis>>

\* the while loop ends: the hash starts with the zeros, and block.hash is set
MineExit(w) ==
    /\ threads[w].pc = "mining"
    /\ startswith_zeros(threads[w].computed_hash, setting)
    /\ threads' = [threads EXCEPT ![w] =
            [pc |-> "mined", previous_block |-> @.previous_block,
             block |-> SetHash(@.block, @.computed_hash)]]
    /\ UNCHANGED <<chain, file, now, ret, tampered, setting, peer, image, temp, analysis>>

\* proof_of_work from its first line to its last as one step, for the
\* specifications that do not look inside the search (the loop touches
\* nothing but the candidate, which no other thread can reach)
ProofOfWork(w) ==
    /\ threads[w].pc = "mining"
    /\ setting = difficulty
    /\ threads' = [threads EXCEPT ![w] =
            [pc |-> "mined", previous_block |-> @.previous_block,
             block |-> proof_of_work(@.block)]]
    /\ UNCHANGED <<chain, file, now, ret, tampered, setting, peer, image, temp, analysis>>

\* the mined candidate is validated against the block read at the start of
\* the call and appended to self.chain
AppendMined(w) ==
    /\ threads[w].pc = "mined"
    /\ LET new_block == threads[w].block
           previous_block == threads[w].previous_block
       IN  IF validate_block(new_block, previous_block)
           THEN /\ chain' = Append(chain, new_block)
                /\ threads' = [threads EXCEPT ![w] =
                        [pc |-> "save", block |-> new_block,
                         previous_block |-> previous_block]]
                /\ UNCHANGED ret
           ELSE /\ threads' = [threads EXCEPT ![w] = Idle]
                /\ ret' = [op |-> "add_block", content_hash |-> new_block.content_hash,
                           creator_public_key |-> new_block.creator_public_key,
                           signature |-> new_block.signature, result |-> FALSE]
                /\ UNCHANGED chain
    /\ UNCHANGED <<file, now, tampered, setting, peer, image, temp, analysis>>

\* save_blockchain up to open(self.blockchain_file, 'w'): the document is
\* built from self.chain as it stands, and opening the file empties it
SaveOpen(w) ==
    /\ threads[w].pc = "save"
    /\ threads' = [threads EXCEPT ![w] =
            [pc |-> "write", block |-> @.block, previous_block |-> @.previous_block,
             data |-> Document(chain)]]
    /\ file' = Unparsable
    /\ UNCHANGED <<chain, now, ret, tampered, setting, peer, image, temp, analysis>>

\* json.dump writes the document and add_block returns True.  Where another
\* thread has written the file since this one opened it, this document goes
\* over the other one from the start of the file: what is left is this
\* document, or its text followed by the rest of a longer one
SaveWrite(w) ==
    /\ threads[w].pc = "write"
    /\ \E written \in {threads[w].data}
                       \cup (IF file.kind = "doc" THEN {Unparsable} ELSE {}) :
            file' = written
    /\ threads' = [threads EXCEPT ![w] = Idle]
    /\ ret' = [op |-> "add_block", content_hash |-> threads[w].block.content_hash,
               creator_public_key |-> threads[w].block.creator_public_key,
               signature |-> threads[w].block.signature, result |-> TRUE]
    /\ UNCHANGED <<chain, now, tampered, setting, peer, image, temp, analysis>>

\* open or json.dump raises OSError inside save_blockchain; nothing catches
\* it, so it leaves add_block as it is
SaveFails(w) ==
    /\ threads[w].pc \in {"save", "write"}
    /\ threads' = [threads EXCEPT ![w] = Idle]
    /\ ret' = [op |-> "add_block", content_hash |-> threads[w].block.content_hash,
               creator_public_key |-> threads[w].block.creator_public_key,
               signature |-> threads[w].block.signature, raised |-> "OSError",
               last_before |-> threads[w].previous_block]
    /\ UNCHANGED <<chain, file, now, tampered, setting, peer, image, temp, analysis>>

\* the process is killed inside a call and main.py is run again:
\* Blockchain() is constructed on the ledger file as it was left
Crash ==
    /\ ~AllIdle
    /\ \E t \in ClockReadings :
        LET made == BlockchainInit(file, t)
        IN  /\ chain' = made.chain
            /\ file' = made.file
            /\ now' = IF Len(load_blockchain(file)) = 0 THEN t ELSE now
            /\ ret' = [op |-> "init", found |-> file,
                       printed |-> load_blockchain_printed(file)]
            /\ threads' = [w \in Threads |-> Idle]
            /\ UNCHANGED <<tampered, setting, peer, image, temp, analysis>>

\* the ways a ledger document is damaged: no JSON any more, the block array
\* emptied, the first entry of the block array lost
MalformedDocuments(f) ==
    {Unparsable, [f EXCEPT !.chain = <<>>]}
        \cup (IF Len(f.chain) >= 2 THEN {[f EXCEPT !.chain = Tail(@)]} ELSE {})

\* a ledger document as save_blockchain writes them: at least the genesis
\* entry, and a length field that counts the entries
WellFormed(f) ==
    /\ f.kind = "doc"
    /\ Len(f.chain) >= 1
    /\ f.length = Len(f.chain)

\* the ledger file is damaged, once, while no call is under way
Corrupt ==
    /\ AllIdle
    /\ tampered = "none"
    /\ file.kind = "doc"
    /\ WellFormed(file)
    /\ \E f \in MalformedDocuments(file) : file' = f
    /\ tampered' = "file"
    /\ ret' = [op |-> "corrupt"]
    /\ UNCHANGED <<chain, now, threads, setting, peer, image, temp, analysis>>

\* a second ledger is constructed, with the same configuration, on a path
\* where no ledger file exists
FreshLedger ==
    \E t \in ClockReadings :
        LET made == BlockchainInit(NoFile, t)
        IN  /\ now < MaxClock
            /\ ret' = [op |-> "init_other", chain |-> made.chain, file |-> made.file]
            /\ now' = t
            /\ UNCHANGED <<chain, file, tampered, threads, setting, peer, image, temp, analysis>>

(******************** get_content_registration, step by step ***************)

\* mutant of list_next: the iterator passes over one element
list_next_skipping(c, i) == IF i + 1 <= Len(c) THEN <<c[i + 1]>> ELSE <<>>

\* the list iterator of `for block in self.chain`: the element at position
\* i of the list as it is now, <<>> when the list has no such position
list_next(c, i) == IF i <= Len(c) THEN <<c[i]>> ELSE <<>>

\* get_content_registration is called: the iterator stands at the first
\* block (the chain at the start of the call is kept for the properties)
LookupBegin(r) ==
    /\ threads[r] = Idle
    /\ \E h \in AllHashes :
        threads' = [threads EXCEPT ![r] =
            [pc |-> "scan", content_hash |-> h, i |-> 1, started |-> chain]]
    /\ UNCHANGED <<chain, file, now, ret, tampered, setting, peer, image, temp, analysis>>

\* one pass of the for loop: the next block is compared and its record
\* returned, or the iterator moves on; None when the list is exhausted
LookupStep(r) ==
    /\ threads[r].pc = "scan"
    /\ LET block == list_next(chain, threads[r].i)
           done(result) ==
               /\ threads' = [threads EXCEPT ![r] = Idle]
               /\ ret' = [op |-> "get_content_registration",
                          content_hash |-> threads[r].content_hash,
                          result |-> result, started |-> threads[r].started]
       IN  IF block = <<>> THEN done(<<>>)
           ELSE IF block[1].content_hash = threads[r].content_hash
           THEN done(<<[index |-> block[1].index, timestamp |-> block[1].timestamp,
                        content_hash |-> block[1].content_hash,
                        creator_public_key |-> block[1].creator_public_key,
                        signature |-> block[1].signature,
                        block_hash |-> calculate_hash(block[1])]>>)
           ELSE /\ threads' = [threads EXCEPT ![r] = [@ EXCEPT !.i = @ + 1]]
                /\ UNCHANGED ret
    /\ UNCHANGED <<chain, file, now, tampered, setting, peer, image, temp, analysis>>

(******************************* tampering *********************************)

\* the values an edit may give to a field of block b of chain c
FieldValues(c, field, b) ==
    CASE field = "content_hash" -> AllHashes
      [] field = "previous_hash" ->
            {GENESIS_PREVIOUS_HASH} \cup {calculate_hash(c[j]) : j \in 1..Len(c)}
      [] field = "nonce" -> 0..(b.nonce + DigestSpread)
      [] field = "index" -> 0..MaxChain

TamperedFields == {"content_hash", "previous_hash", "nonce", "index"}

\* one field of one non-genesis block of the in-memory chain is changed
TamperMemory ==
    /\ tampered = "none"
    /\ is_valid_chain(chain)
    /\ \E i \in 2..Len(chain), field \in TamperedFields :
         \E v \in FieldValues(chain, field, chain[i]) \ {chain[i][field]} :
            /\ chain' = [chain EXCEPT ![i] = [@ EXCEPT ![field] = v]]
            /\ tampered' = "memory"
            /\ ret' = [op |-> "tamper", block |-> i, field |-> field]
            /\ UNCHANGED <<file, now, threads, setting, peer, image, temp, analysis>>

\* one field of one non-genesis block of the persisted document is changed
TamperFile ==
    /\ tampered = "none"
    /\ file.kind = "doc"
    /\ is_valid_chain(load_blockchain(file))
    /\ \E i \in 2..Len(file.chain), field \in TamperedFields :
         \E v \in FieldValues(load_blockchain(file), field, file.chain[i]) \ {file.chain[i][field]} :
            /\ file' = [file EXCEPT !.chain = [@ EXCEPT ![i] = [@ EXCEPT ![field] = v]]]
            /\ tampered' = "file"
            /\ ret' = [op |-> "tamper", block |-> i, field |-> field]
            /\ UNCHANGED <<chain, now, threads, setting, peer, image, temp, analysis>>

\* Blockchain() constructed on the edited document
LoadTampered ==
    /\ tampered = "file"
    /\ \E t \in ClockReadings :
        LET made == BlockchainInit(file, t)
        IN  /\ chain' = made.chain
            /\ file' = made.file
            /\ now' = IF Len(load_blockchain(file)) = 0 THEN t ELSE now
            /\ ret' = [op |-> "init", block |-> ret.block, field |-> ret.field]
            /\ tampered' = "loaded"
            /\ UNCHANGED <<threads, setting, peer, image, temp, analysis>>

(**************************** specifications *******************************)

\* the ledger and the registration path
Next == AddBlock \/ Lookup \/ Register \/ Reopen

Spec == Init /\ [][Next]_vars

\* the orchestrator: registrations, reports and verifications
NextVerify == Register \/ Report \/ Verify

SpecVerify == Init /\ [][NextVerify]_vars

\* the ledger with one edit of a block made behind its back
NextTamper ==
    \/ tampered = "none" /\ (AddBlock \/ Reopen)
    \/ TamperMemory
    \/ TamperFile
    \/ LoadTampered

SpecTamper == Init /\ [][NextTamper]_vars

\* the ledger that goes on appending after it was constructed on an edited
\* document
NextAdopt ==
    \/ NextTamper
    \/ tampered = "loaded" /\ AddBlock

SpecAdopt == Init /\ [][NextAdopt]_vars

\* one ledger instance shared by two threads that call add_block
NextThreads ==
    \/ \E w \in Appenders : AddBlockBegin(w)
    \/ \E w \in Appenders : ProofOfWork(w)
    \/ \E w \in Appenders : AppendMined(w)
    \/ \E w \in Appenders : SaveOpen(w)
    \/ \E w \in Appenders : SaveWrite(w)

SpecThreads == Init /\ [][NextThreads]_vars

\* one ledger instance shared by a thread that calls add_block and a thread
\* that calls get_content_registration
NextLookup ==
    \/ AddBlockBegin("append1")
    \/ ProofOfWork("append1")
    \/ AppendMined("append1")
    \/ SaveOpen("append1")
    \/ SaveWrite("append1")
    \/ \E r \in Readers : LookupBegin(r)
    \/ \E r \in Readers : LookupStep(r)

SpecLookup == Init /\ [][NextLookup]_vars

\* one thread calling add_block on a ledger whose difficulty is set between
\* calls, the nonce search taken pass by pass
NextMining ==
    \/ Configure
    \/ AddBlockBegin("append1")
    \/ MineStep("append1")
    \/ MineExit("append1")
    \/ AppendMined("append1")
    \/ SaveOpen("append1")
    \/ SaveWrite("append1")

\* the thread inside add_block keeps running
SpecMining ==
    /\ Init
    /\ [][NextMining]_vars
    /\ WF_vars(MineStep("append1"))
    /\ WF_vars(MineExit("append1"))
    /\ WF_vars(AppendMined("append1"))
    /\ WF_vars(SaveOpen("append1"))
    /\ WF_vars(SaveWrite("append1"))

\* one thread calling add_block, with save_blockchain taken in its two
\* steps, I/O failures, the process killed and started again, and a second
\* ledger constructed elsewhere
NextFaults ==
    \/ AddBlockBegin("append1")
    \/ ProofOfWork("append1")
    \/ AppendMined("append1")
    \/ SaveOpen("append1")
    \/ SaveWrite("append1")
    \/ SaveFails("append1")
    \/ Crash
    \/ AllIdle /\ Reopen
    \/ FreshLedger

SpecFaults == Init /\ [][NextFaults]_vars

\* the ledger with its file damaged between runs
NextLoad == Register \/ Corrupt \/ Reopen

SpecLoad == Init /\ [][NextLoad]_vars

(************************* detection, the calls ****************************)

\* images on which the four AI detectors measure every combination of a
\* low, a middling and a high score
AIImages ==
    {[Photo EXCEPT !.uniformity_score = u, !.jpeg_encodable = j,
                   !.correlation_score = c, !.average_entropy = e,
                   !.coefficient_of_variation = v] :
        u \in {-600, 40, 80}, j \in BOOLEAN, c \in {0, 50, 100},
        e \in {0, 480, 800}, v \in {0, 60, 250}}

\* normalized entropy and kurtosis deviation of the DCT coefficients:
\* natural, heavily quantized, and heavy-tailed at an ordinary entropy
DctMeasurements == {<<50, 0>>, <<20, 100>>, <<50, 300>>}

\* images on which the six tampering detectors measure such combinations
TamperImages ==
    {[Photo EXCEPT !.pil_opens = p, !.same_shape = s, !.std_error = d,
                   !.similar_ratio = r, !.faces = f, !.noise_inconsistency = n,
                   !.normalized_entropy = q[1], !.kurtosis_deviation = q[2],
                   !.metadata = m] :
        p \in BOOLEAN, s \in BOOLEAN, d \in {10, 25, 60}, r \in {0, 50},
        f \in {<<>>, <<FALSE>>, <<TRUE>>}, n \in {0, 180},
        q \in DctMeasurements, m \in {"match", "mismatch", "unreadable"}}

\* content of the other kinds: a file OpenCV cannot read, an image shorter
\* than a patch, a video, an unsupported type
OtherContent ==
    {[Photo EXCEPT !.loads = FALSE], [Photo EXCEPT !.small = TRUE],
     [Photo EXCEPT !.content_type = "video"], NoImage}

Images == AIImages \cup TamperImages \cup OtherContent

\* a ledger as in Init and one content item to analyse
InitDetect ==
    LET made == BlockchainInit(NoFile, 0)
    IN  /\ chain = made.chain
        /\ file = made.file
        /\ now = 0
        /\ ret = [op |-> "none"]
        /\ tampered = "none"
        /\ threads = [w \in Threads |-> Idle]
        /\ setting = difficulty
        /\ peer = <<>>
        /\ image \in Images
        /\ temp = NoTemp
        /\ analysis = [a \in Analysts |-> Idle]

\* a call of AIGenerationDetector.detect_ai_generated on the content
DetectAI ==
    /\ ret' = [op |-> "detect_ai_generated", result |-> detect_ai_generated(image)]
    /\ UNCHANGED <<chain, file, now, tampered, threads, setting, peer, image, temp,
                   analysis>>

\* a call of TamperDetector.detect_manipulation on the content
DetectManipulation ==
    LET results == detect_manipulation(image, "ela1")
    IN  /\ ret' = [op |-> "detect_manipulation", result |-> results]
        /\ temp' = results.temp
        /\ UNCHANGED <<chain, file, now, tampered, threads, setting, peer, image,
                       analysis>>

NextDetect == DetectAI \/ DetectManipulation

SpecDetect == InitDetect /\ [][NextDetect]_vars

(******************** error_level_analysis, step by step *******************)

\* images as error_level_analysis sees them
ElaImages ==
    {[Photo EXCEPT !.pil_opens = p, !.same_shape = s, !.std_error = d] :
        p \in BOOLEAN, s \in BOOLEAN, d \in {10, 25, 60}}

InitEla ==
    LET made == BlockchainInit(NoFile, 0)
    IN  /\ chain = made.chain
        /\ file = made.file
        /\ now = 0
        /\ ret = [op |-> "none"]
        /\ tampered = "none"
        /\ threads = [w \in Threads |-> Idle]
        /\ setting = difficulty
        /\ peer = <<>>
        /\ image \in ElaImages
        /\ temp = NoTemp
        /\ analysis = [a \in Analysts |-> Idle]

\* the call returns `signal`
ElaReturn(a, signal) ==
    analysis' = [analysis EXCEPT ![a] = [pc |-> "done", signal |-> signal]]

\* line 27: Image.open(image_path)
ElaBegin(a) ==
    /\ analysis[a].pc = "idle"
    /\ IF image.pil_opens
       THEN analysis' = [analysis EXCEPT ![a] = [pc |-> "save"]]
       ELSE ElaReturn(a, Failed("Error in ELA"))
    /\ UNCHANGED <<chain, file, now, ret, tampered, threads, setting, peer, image,
                   temp>>

\* line 31: img.save(temp_path, 'JPEG', quality=quality)
ElaSave(a) ==
    /\ analysis[a].pc = "save"
    /\ temp' = TempBy(a)
    /\ analysis' = [analysis EXCEPT ![a] = [pc |-> "load"]]
    /\ UNCHANGED <<chain, file, now, ret, tampered, threads, setting, peer, image>>

\* lines 32-61: the copy is opened and read, the arrays are subtracted and
\* the confidence is computed; a missing copy and arrays of different
\* shapes raise, which the handler turns into 0.0
ElaLoad(a) ==
    /\ analysis[a].pc = "load"
    /\ IF temp = NoTemp \/ ~image.same_shape
       THEN ElaReturn(a, Failed("Error in ELA"))
       ELSE analysis' = [analysis EXCEPT ![a] =
                [pc |-> "exists",
                 signal |-> IF image.std_error > 20
                            THEN Signal(min(100, image.std_error * 2))
                            ELSE Signal(10)]]
    /\ UNCHANGED <<chain, file, now, ret, tampered, threads, setting, peer, image,
                   temp>>

\* line 64: os.path.exists(temp_path)
ElaExists(a) ==
    /\ analysis[a].pc = "exists"
    /\ IF temp # NoTemp
       THEN analysis' = [analysis EXCEPT ![a].pc = "remove"]
       ELSE ElaReturn(a, analysis[a].signal)
    /\ UNCHANGED <<chain, file, now, ret, tampered, threads, setting, peer, image,
                   temp>>

\* line 65: os.remove(temp_path), which raises when the file is gone
ElaRemove(a) ==
    /\ analysis[a].pc = "remove"
    /\ IF temp # NoTemp
       THEN /\ temp' = NoTemp
            /\ ElaReturn(a, analysis[a].signal)
       ELSE /\ temp' = temp
            /\ ElaReturn(a, Failed("Error in ELA"))
    /\ UNCHANGED <<chain, file, now, ret, tampered, threads, setting, peer, image>>

NextEla ==
    \E a \in Analysts :
        ElaBegin(a) \/ ElaSave(a) \/ ElaLoad(a) \/ ElaExists(a) \/ ElaRemove(a)

SpecEla == InitEla /\ [][NextEla]_vars

(******************** two ledger objects on one file ***********************)

\* a second Blockchain() constructed on the same ledger file while the
\* first is in use (main.py builds the verification engine, which holds
\* one, and then its own)
PeerOpen ==
    /\ peer = <<>>
    /\ \E t \in ClockReadings :
        LET made == BlockchainInit(file, t)
        IN  /\ peer' = made.chain
            /\ file' = made.file
            /\ now' = IF Len(load_blockchain(file)) = 0 THEN t ELSE now
            /\ ret' = [op |-> "init_peer", found |-> file,
                       printed |-> load_blockchain_printed(file)]
            /\ UNCHANGED <<chain, tampered, threads, setting, image, temp, analysis>>

\* add_block on the second object: it extends and saves its own chain
PeerAddBlock ==
    /\ peer # <<>>
    /\ Len(peer) < MaxChain
    /\ \E h \in AllHashes, k \in Keys, t \in ClockReadings :
        LET sig == sign_content(h, k)
            r == add_block_result(peer, h, k, sig, t)
        IN  /\ peer' = r.chain
            /\ file' = IF r.ok THEN save_blockchain(r.chain) ELSE file
            /\ now' = t
            /\ ret' = [op |-> "add_block_peer", content_hash |-> h,
                       creator_public_key |-> k, signature |-> sig, result |-> r.ok]
            /\ UNCHANGED <<chain, tampered, threads, setting, image, temp, analysis>>

NextPeers == AddBlock \/ PeerOpen \/ PeerAddBlock

SpecPeers == Init /\ [][NextPeers]_vars

(******************************* properties ********************************)

\* the number of leading '0' characters among the modelled digits of hash h
LeadingZeros(h) ==
    Cardinality({k \in 1..Len(h.hex) : \A j \in 1..k : h.hex[j] = 0})

\* the registration record of a block, as a lookup returns it
RecordOf(block) ==
    [index |-> block.index, timestamp |-> block.timestamp,
     content_hash |-> block.content_hash,
     creator_public_key |-> block.creator_public_key,
     signature |-> block.signature, block_hash |-> calculate_hash(block)]

\* the positions of the chain that carry content hash h
PositionsOf(h) == {i \in 1..Len(chain) : chain[i].content_hash = h}

\* the least element of a non-empty set of numbers
Least(S) == CHOOSE x \in S : \A y \in S : x <= y

\* C1: every add_block call on a chain of length n leaves a chain of length
\* n+1 that extends the old one by one block, whose index is the previous last
\* index plus one and whose previous_hash is the hash of the block that was
\* last before the call.
C1_AppendExtendsChain ==
    [][ret'.op = "add_block" =>
          /\ Len(chain') = Len(chain) + 1
          /\ SubSeq(chain', 1, Len(chain)) = chain
          /\ chain'[Len(chain')].index = chain[Len(chain)].index + 1
          /\ chain'[Len(chain')].previous_hash = calculate_hash(chain[Len(chain)])
          /\ ret'.result = TRUE]_vars

\* C1 witness: a second add_block has returned, the chain holds three blocks
C1_Witness ==
    /\ ret.op = "add_block"
    /\ ret.result = TRUE
    /\ Len(chain) = 3
    /\ chain[3].previous_hash = calculate_hash(chain[2])

\* C2: in every state of a ledger built by construction and add_block calls,
\* is_valid_chain() is true: block 0 is the genesis sentinel, and every later
\* block i has index i, previous_hash equal to the hash of block i-1, and a
\* hash that meets the difficulty and equals its stored hash.
C2_ChainAlwaysValid ==
    /\ is_valid_chain(chain)
    /\ Len(chain) >= 1
    /\ chain[1].index = 0
    /\ chain[1].content_hash = GENESIS_CONTENT_HASH
    /\ chain[1].creator_public_key = GENESIS
    /\ chain[1].signature = GENESIS
    /\ chain[1].previous_hash = GENESIS_PREVIOUS_HASH
    /\ \A i \in 2..Len(chain) :
          /\ chain[i].index = i - 1
          /\ chain[i].previous_hash = calculate_hash(chain[i - 1])
          /\ LeadingZeros(calculate_hash(chain[i])) >= difficulty
          /\ chain[i].hash = calculate_hash(chain[i])

\* C2 witness: a chain of three blocks, the last one mined with a nonce the
\* search had to count up to
C2_Witness ==
    /\ Len(chain) = 3
    /\ is_valid_chain(chain)
    /\ chain[3].nonce > 0

\* C3: after one field (content_hash, previous_hash, nonce or index) of one
\* non-genesis block of a valid chain is changed, in memory or in the
\* persisted document that is then loaded, is_valid_chain() is false.
C3_TamperDetected ==
    tampered \in {"memory", "loaded"} => ~is_valid_chain(chain)

\* C4: every block at index > 0 has a hash, computed over its final field
\* values with the nonce proof_of_work found, that starts with at least
\* `difficulty` '0' characters; it is the hash stored on the block.
C4_MinedHashMeetsDifficulty ==
    \A i \in 2..Len(chain) :
        /\ LeadingZeros(calculate_hash(chain[i])) >= difficulty
        /\ LeadingZeros(chain[i].hash) >= difficulty

\* C4 witness: a mined block whose nonce is not the first one tried
C4_Witness ==
    \E i \in 2..Len(chain) :
        /\ chain[i].nonce > 0
        /\ LeadingZeros(calculate_hash(chain[i])) >= difficulty
        /\ LeadingZeros(calculate_hash([chain[i] EXCEPT !.nonce = 0])) < difficulty

\* C5: a block is accepted only if its signature verifies against the
\* creator's public key over the content hash; an add_block whose signature
\* does not verify returns failure.
C5_SignatureRequired ==
    /\ \A i \in 2..Len(chain) :
          verify_signature(chain[i].content_hash, chain[i].signature,
                           chain[i].creator_public_key)
    /\ (ret.op = "add_block"
          /\ ~verify_signature(ret.content_hash, ret.signature, ret.creator_public_key))
       => ret.result = FALSE

\* C6: no two appended blocks of the chain carry the same content hash.
C6_NoDuplicateContentHash ==
    \A i \in 2..Len(chain), j \in 2..Len(chain) :
        i # j => chain[i].content_hash # chain[j].content_hash

\* C7: get_content_registration returns none for a hash no add_block has
\* appended, and for an appended hash the record of the earliest block
\* registered with it.
C7_LookupExact ==
    ret.op = "get_content_registration" =>
        LET appended == PositionsOf(ret.content_hash) \ {1}
        IN  IF appended = {} THEN ret.result = <<>>
            ELSE ret.result = <<RecordOf(chain[Least(appended)])>>

\* C9: a register call that repeats the one before it (same content, same
\* identity) computes the same content hash, returns AlreadyRegistered with
\* the index the first call returned, and leaves chain and ledger file as
\* they are, so that the two calls together lengthened the chain by exactly 1
\* when the first one registered; and every AlreadyRegistered outcome leaves
\* the ledger alone and names the earliest block carrying the hash.
C9_RegisterIdempotent ==
    [][ret'.op = "register" =>
          /\ ret'.content_hash = ContentDigest(ret'.content)
          /\ ret'.outcome = "AlreadyRegistered" =>
                /\ chain' = chain
                /\ file' = file
                /\ PositionsOf(ret'.content_hash) # {}
                /\ ret'.index = chain[Least(PositionsOf(ret'.content_hash))].index
          /\ (ret.op = "register" /\ ret.content = ret'.content
                /\ ret.identity = ret'.identity) =>
                /\ ret'.content_hash = ret.content_hash
                /\ ret'.outcome = "AlreadyRegistered"
                /\ ret'.index = ret.index
                /\ ret.outcome = "Registered" =>
                      Len(chain') = ret.length_before + 1]_vars

\* C9 witness: a register call has found its content registered at index 1,
\* by the identity that now repeats the call
C9_Witness ==
    /\ ret.op = "register"
    /\ ret.outcome = "AlreadyRegistered"
    /\ ret.index = 1
    /\ chain[2].creator_public_key = ret.identity
    /\ chain[2].content_hash = ContentDigest(ret.content)

\* C10: the classification of a verification follows the first-match table
\* over (ledger status, ai confidence, tamper confidence, thresholds), the
\* ledger status being VERIFIED exactly when the chain holds the content hash:
\* VERIFIED with both confidences below threshold is AUTHENTIC_REGISTERED;
\* otherwise ai at or above threshold is LIKELY_AI_GENERATED whatever the
\* tamper signal and the status; otherwise tamper at or above threshold is
\* LIKELY_MANIPULATED; otherwise NOT_FOUND is UNVERIFIED_ORIGIN; otherwise
\* INDETERMINATE.
C10_ClassificationTable ==
    ret.op = "verify" =>
        LET r == ret.report
            th == ret.thresholds
            verified == PositionsOf(r.content_hash) # {}
            aiHigh == r.ai_confidence >= th.ai
            tamperHigh == r.tamper_confidence >= th.tamper
        IN  /\ r.ledger_status = IF verified THEN "VERIFIED" ELSE "NOT_FOUND"
            /\ (verified /\ ~aiHigh /\ ~tamperHigh)
                  => r.classification = "AUTHENTIC_REGISTERED"
            /\ aiHigh => r.classification = "LIKELY_AI_GENERATED"
            /\ (~aiHigh /\ tamperHigh) => r.classification = "LIKELY_MANIPULATED"
            /\ (~verified /\ ~aiHigh /\ ~tamperHigh)
                  => r.classification = "UNVERIFIED_ORIGIN"
            /\ r.classification = "INDETERMINATE"
                  => (~aiHigh /\ ~tamperHigh /\ r.ledger_status \notin {"VERIFIED", "NOT_FOUND"})

\* C10 witness: registered content whose ai confidence equals the threshold
\* is reported LIKELY_AI_GENERATED although the tamper signal is high too
C10_Witness ==
    /\ ret.op = "verify"
    /\ ret.report.ledger_status = "VERIFIED"
    /\ ret.report.ai_confidence = ret.thresholds.ai
    /\ ret.report.tamper_confidence >= ret.thresholds.tamper
    /\ ret.report.classification = "LIKELY_AI_GENERATED"

\* C11: a registration is visible to the next verification, nothing being
\* cached: on a fresh ledger a register call appends a block at index 1 whose
\* hash starts with "00"; a ledger report or a verification for a content's
\* hash is NOT_FOUND while no block carries the hash, and from the append on
\* it is VERIFIED and carries the record of the block that registered it, so
\* that with both detector confidences 0 the verdict is AUTHENTIC_REGISTERED.
C11_RegistrationVisible ==
    /\ (ret.op = "register" /\ ret.outcome = "Registered" /\ ret.length_before = 1) =>
          /\ ret.index = 1
          /\ chain[2].index = 1
          /\ chain[2].content_hash = ret.content_hash
          /\ LeadingZeros(chain[2].hash) >= difficulty
          /\ get_verification_report(chain, ret.content_hash).status = "VERIFIED"
          /\ get_verification_report(chain, ret.content_hash).registration_info
                = <<RecordOf(chain[2])>>
    /\ (ret.op = "get_verification_report" /\ ret.content_hash \in ContentHashes) =>
          IF PositionsOf(ret.content_hash) = {}
          THEN /\ ret.result.status = "NOT_FOUND"
               /\ ret.result.registration_info = <<>>
          ELSE /\ ret.result.status = "VERIFIED"
               /\ ret.result.registration_info
                     = <<RecordOf(chain[Least(PositionsOf(ret.content_hash))])>>
    /\ ret.op = "verify" =>
          IF PositionsOf(ret.report.content_hash) = {}
          THEN /\ ret.report.ledger_status = "NOT_FOUND"
               /\ ret.report.classification # "AUTHENTIC_REGISTERED"
          ELSE /\ ret.report.ledger_status = "VERIFIED"
               /\ ret.report.record
                     = <<RecordOf(chain[Least(PositionsOf(ret.report.content_hash))])>>
               /\ (ret.report.ai_confidence = 0 /\ ret.report.tamper_confidence = 0)
                     => ret.report.classification = "AUTHENTIC_REGISTERED"

\* C11 witness: content registered at index 1 of a fresh ledger is verified
\* with both confidences 0 and found AUTHENTIC_REGISTERED
C11_Witness ==
    /\ ret.op = "verify"
    /\ Len(chain) >= 2
    /\ chain[2].content_hash = ret.report.content_hash
    /\ LeadingZeros(chain[2].hash) >= difficulty
    /\ ret.report.ai_confidence = 0
    /\ ret.report.tamper_confidence = 0
    /\ ret.report.record = <<RecordOf(chain[2])>>
    /\ ret.report.classification = "AUTHENTIC_REGISTERED"

\* C12: with two add_block calls under way on one ledger instance at the same
\* time, mining and chain mutation are serialized: no two blocks of the chain
\* have the same index or the same previous_hash, and the chain satisfies
\* is_valid_chain().
C12_AppendsSerialized ==
    /\ \A i \in 1..Len(chain), j \in 1..Len(chain) :
          i # j => /\ chain[i].index # chain[j].index
                   /\ chain[i].previous_hash # chain[j].previous_hash
    /\ is_valid_chain(chain)

C13_MiningTerminates ==
    (threads["append1"].pc = "mining") ~> (threads["append1"].pc # "mining")

\* C14: persistence writes are atomic: at every point, inside save_blockchain
\* and after a crash or an I/O failure part-way through it, the ledger file
\* holds a complete document, the one written before or the new one, that is
\* the snapshot of the chain or of the chain without its latest blocks; it is
\* never empty, cut short or partly written.
C14_AtomicSave ==
    /\ WellFormed(file)
    /\ \E n \in 1..Len(chain) : file = Document(SubSeq(chain, 1, n))

\* C15: when Blockchain() is constructed on a ledger document that is
\* malformed or unreadable, the ledger ends up with a genesis-only chain and a
\* load-error notification is emitted, which a cold start with no file does
\* not emit.
C15_MalformedLoadNotified ==
    /\ (ret.op = "init" /\ ret.found.kind # "absent" /\ ~WellFormed(ret.found)) =>
          /\ Len(chain) = 1
          /\ chain[1].index = 0
          /\ chain[1].creator_public_key = GENESIS
          /\ chain[1].content_hash = GENESIS_CONTENT_HASH
          /\ ret.printed # <<>>
    /\ (ret.op = "init" /\ ret.found.kind = "absent") => ret.printed = <<>>

\* C19: genesis construction is deterministic: a second ledger constructed
\* with the same configuration where no file exists has the same genesis
\* block as the first, hence the same genesis hash and the same persisted
\* genesis document.
C19_GenesisDeterministic ==
    ret.op = "init_other" =>
        /\ ret.chain[1] = chain[1]
        /\ calculate_hash(ret.chain[1]) = calculate_hash(chain[1])
        /\ ret.file = Document(<<chain[1]>>)

\* C20: when save_blockchain fails inside add_block, the error reaches the
\* caller and the in-memory chain is as it was before the call, its last
\* block being the one the call found there, so that the append can be made
\* again.
C20_SaveFailurePreservesChain ==
    [][SaveFails("append1") =>
          /\ ret'.raised = "OSError"
          /\ chain'[Len(chain')] = ret'.last_before]_vars

\* C16: the chain is append-only and contiguous: every operation on a
\* constructed ledger leaves the chain it found as a prefix of the chain it
\* leaves (no block deleted, reordered or edited), and in every state block
\* i has index i.
C16_AppendOnly ==
    [][/\ Len(chain') >= Len(chain)
       /\ SubSeq(chain', 1, Len(chain)) = chain
       /\ \A i \in 1..Len(chain) : chain[i].index = i - 1
       /\ \A i \in 1..Len(chain') : chain'[i].index = i - 1]_vars

\* C16 witness: a ledger of three blocks has been constructed again from its
\* file
C16_Witness ==
    /\ ret.op = "init"
    /\ ret.found.kind = "doc"
    /\ Len(chain) = 3
    /\ \A i \in 1..3 : chain[i].index = i - 1

\* C17: after genesis creation and after every add_block that returned
\* success, the persisted document is a full snapshot of the in-memory chain:
\* its block array is the chain's blocks in order, its length field the chain
\* length, its validity flag the value of is_valid_chain().
C17_FileIsSnapshot ==
    /\ file.kind = "doc"
    /\ Len(file.chain) = Len(chain)
    /\ \A i \in 1..Len(chain) : file.chain[i] = to_dict(chain[i])
    /\ file.length = Len(chain)
    /\ file.valid = is_valid_chain(chain)

\* C17 witness: a second add_block has returned success and the document
\* holds three blocks, the last one carrying the content hash just appended
C17_Witness ==
    /\ ret.op = "add_block"
    /\ ret.result = TRUE
    /\ Len(chain) = 3
    /\ file.kind = "doc"
    /\ file.length = 3
    /\ file.chain[3].content_hash = ret.content_hash

C22_EvidenceIffExceeds ==
    /\ (ret.op = "detect_ai_generated" /\ ret.result.raised = <<>>) =>
        LET s == ret.result.detection_signals
            listed == {ret.result.evidence[i] : i \in 1..Len(ret.result.evidence)}
        IN  /\ image.content_type = "image" =>
                \A i \in 1..Len(AIDetectors) :
                    (AIEvidence[AIDetectors[i]] \in listed)
                        <=> (s[AIDetectors[i]].confidence > 50)
            /\ \A x \in listed :
                /\ image.content_type = "image"
                /\ \E i \in 1..Len(AIDetectors) :
                    /\ AIEvidence[AIDetectors[i]] = x
                    /\ s[AIDetectors[i]].confidence > 50
    /\ (ret.op = "detect_manipulation" /\ ret.result.raised = <<>>) =>
        LET s == ret.result.manipulation_signals
            listed == {ret.result.evidence[i] : i \in 1..Len(ret.result.evidence)}
        IN  /\ image.content_type = "image" =>
                \A i \in 1..Len(TamperDetectors) :
                    (TamperEvidence[TamperDetectors[i]] \in listed)
                        <=> (s[TamperDetectors[i]].confidence > 50)
            /\ \A x \in listed :
                /\ image.content_type = "image"
                /\ \E i \in 1..Len(TamperDetectors) :
                    /\ TamperEvidence[TamperDetectors[i]] = x
                    /\ s[TamperDetectors[i]].confidence > 50

\* C23: aggregation is total: a call on image content returns a result, in
\* which every detector of the category was run, and a detector that could
\* not process the content stands with confidence 0.0 and a diagnostic
C23_AggregationTotal ==
    /\ (ret.op = "detect_ai_generated" /\ image.content_type = "image") =>
        /\ ret.result.raised = <<>>
        /\ ret.result.invoked = AIDetectors
        /\ \A i \in 1..Len(AIDetectors) :
            LET signal == ret.result.detection_signals[AIDetectors[i]]
            IN  signal.error # <<>> => signal.confidence = 0
    /\ (ret.op = "detect_manipulation" /\ image.content_type = "image") =>
        /\ ret.result.raised = <<>>
        /\ ret.result.invoked = TamperDetectors
        /\ \A i \in 1..Len(TamperDetectors) :
            LET signal == ret.result.manipulation_signals[TamperDetectors[i]]
            IN  signal.error # <<>> => signal.confidence = 0

\* C24: every detector confidence in a result lies within [0, 1], and so
\* does the overall confidence of the category
C24_ConfidenceInRange ==
    /\ (ret.op = "detect_ai_generated" /\ ret.result.raised = <<>>) =>
        /\ ret.result.overall_confidence \in 0..(100 * 100)
        /\ image.content_type = "image" =>
            \A i \in 1..Len(AIDetectors) :
                ret.result.detection_signals[AIDetectors[i]].confidence \in 0..100
    /\ (ret.op = "detect_manipulation" /\ ret.result.raised = <<>>) =>
        /\ ret.result.overall_confidence \in 0..(100 * 100)
        /\ image.content_type = "image" =>
            \A i \in 1..Len(TamperDetectors) :
                ret.result.manipulation_signals[TamperDetectors[i]].confidence \in 0..100

\* C25: the decision threshold is the default 0.5 and is inclusive: content
\* whose overall confidence reaches the threshold, exactly 0.5 included, is
\* flagged as AI-generated resp. as manipulated
C25_ThresholdInclusive ==
    /\ (ret.op = "detect_ai_generated" /\ ret.result.raised = <<>>
            /\ ret.result.overall_confidence >= 100 * DEFAULT_THRESHOLD) =>
        ret.result.is_ai_generated
    /\ (ret.op = "detect_manipulation" /\ ret.result.raised = <<>>
            /\ ret.result.overall_confidence >= 100 * DEFAULT_THRESHOLD) =>
        ret.result.is_manipulated

\* C26: with two ledger objects open on one ledger file, the persisted
\* document holds every block that either of them has appended and saved:
\* no save of one object loses a block the other one persisted
C26_BothPersisted ==
    (peer # <<>> /\ file.kind = "doc") =>
        /\ \A i \in 1..Len(chain) :
            \E j \in 1..Len(file.chain) : file.chain[j] = to_dict(chain[i])
        /\ \A i \in 1..Len(peer) :
            \E j \in 1..Len(file.chain) : file.chain[j] = to_dict(peer[i])

\* C27: saving and loading is a round trip: a ledger constructed on the
\* document save_blockchain wrote for a chain holds that chain again, block
\* for block with all seven fields, in order and with the same block hashes,
\* so that is_valid_chain() and every get_content_registration answer are
\* what they were before
C27_RoundTrip ==
    [][(ret'.op = "init" /\ file = save_blockchain(chain)) =>
            /\ chain' = chain
            /\ \A i \in 1..Len(chain) :
                /\ to_dict(chain'[i]) = to_dict(chain[i])
                /\ chain'[i].hash = chain[i].hash
            /\ is_valid_chain(chain') = is_valid_chain(chain)
            /\ \A h \in AllHashes :
                get_content_registration(chain', h) = get_content_registration(chain, h)]_vars

\* C27 witness: a ledger was constructed on the document of a three-block
\* chain and finds a registered content item in it
C27_Witness ==
    /\ ret.op = "init"
    /\ ret.found = save_blockchain(chain)
    /\ Len(chain) = MaxChain
    /\ is_valid_chain(chain)
    /\ \E h \in ContentHashes : get_content_registration(chain, h) # <<>>
    /\ \E i \in 1..Len(chain) : chain[i].nonce # 0

\* C28: a ledger constructed on an existing document never holds a chain
\* that fails is_valid_chain() (a document that breaks index continuity,
\* linkage or proof of work is not adopted), and add_block never extends a
\* chain that is invalid
C28_LoadedChainValid ==
    /\ ret.op = "init" => is_valid_chain(chain)
    /\ (ret.op = "add_block" /\ ret.result) =>
        is_valid_chain(SubSeq(chain, 1, Len(chain) - 1))

\* C29: a constructor whose load fails or finds an empty chain at once
\* rewrites the ledger file with a snapshot of the genesis block alone,
\* overwriting what the document held; a constructor whose load yields a
\* non-empty chain leaves the ledger file as it is
C29_ConstructorFrame ==
    [][ret'.op = "init" =>
            IF file.kind # "doc" \/ Len(file.chain) = 0
            THEN /\ Len(chain') = 1
                 /\ chain'[1] = create_genesis_block(chain'[1].timestamp)
                 /\ file' = Document(chain')
                 /\ file' # file
            ELSE /\ file' = file
                 /\ chain' = load_blockchain(file)]_vars

\* C29 witness: a ledger was constructed on a document whose block array had
\* been emptied after registrations, and the file now holds the genesis
\* block alone
C29_Witness ==
    /\ ret.op = "init"
    /\ ret.found.kind = "doc"
    /\ Len(ret.found.chain) = 0
    /\ ret.found.length >= 2
    /\ file.kind = "doc"
    /\ Len(file.chain) = 1
    /\ file.chain[1].creator_public_key = GENESIS
    /\ file.length = 1

\* C30: error_level_analysis leaves the file system as it found it: once
\* every call has returned, normally or through the exception handler, the
\* temporary file is gone; and while two analyses of the same image run, the
\* copy a caller has saved is still there when that caller comes to read it
C30_TempFileGone ==
    /\ (\A a \in Analysts : analysis[a].pc \in {"idle", "done"}) => temp = NoTemp
    /\ \A a \in Analysts : analysis[a].pc = "load" => temp # NoTemp

====
